---- MODULE Spec2Model ----
(***************************************************************************)
(* Special profiles of the profile package: the factory                    *)
(* (getSpecialProfile), the metadata synchronizer                          *)
(* (updateSpecialProfileMetadata) and the upgrade gate                     *)
(* (specialProfileNeedsReset / canBeUpgraded), together with the load      *)
(* lifecycle that drives them.                                             *)
(***************************************************************************)
EXTENDS Integers, Sequences, FiniteSets, TLC

VARIABLES
    profile,    \* the record in hand (a Profile, or Nil when there is none)
    pre,        \* the record as it was before the last operation
    now,        \* wall clock, Unix seconds
    op,         \* the last operation
    arg,        \* the ID and linked path passed to the last operation
    ret,        \* what the last operation returned
    again,      \* the last reconcile directly followed one with the same path
    migrated,   \* a reset has re-created the record at or after its cutoff
    resetAgain  \* a reset happened although migrated was already set

vars == <<profile, pre, now, op, arg, ret, again, migrated, resetAgain>>

----------------------------------------------------------------------------
(* Bounds *)

\* Sample instants lie within Skew seconds of each cutoff.
Skew == 1

----------------------------------------------------------------------------
(* Profile IDs, names and descriptions *)

UnidentifiedProfileID == "_unidentified"
UnidentifiedProfileName == "Unidentified Processes"
UnidentifiedProfileDescription ==
    "This is not a real application, but a collection of connections that could not be attributed to a process. This could be because the Portmaster failed to identify the process, or simply because there is no process waiting for an incoming connection.\n\nSeeing a lot of incoming connections here is normal, as this resembles the network chatter of other devices.\n"

SystemProfileID == "_system"
SystemProfileName == "Operating System"
SystemProfileDescription == "This is the operation system itself."

SystemResolverProfileID == "_system-resolver"
SystemResolverProfileName == "System DNS Client"
SystemResolverProfileDescription ==
    "The System DNS Client is a system service that requires special handling. For regular network connections, the configured settings will apply as usual, but DNS requests coming from the System DNS Client are handled in a special way, as they could actually be coming from any other application on the system.\n\nIn order to respect the app settings of the actual application, DNS requests from the System DNS Client are only subject to the following settings:\n\n- Outgoing Rules (without global rules)\n- Block Bypassing\n- Filter Lists\n\nIf you think you might have messed up the settings of the System DNS Client, just delete the profile below to reset it to the defaults.\n"

PortmasterProfileID == "_portmaster"
PortmasterProfileName == "Portmaster Core Service"
PortmasterProfileDescription ==
    "This is the Portmaster itself, which runs in the background as a system service. App specific settings have no effect."

PortmasterAppProfileID == "_portmaster-app"
PortmasterAppProfileName == "Portmaster User Interface"
PortmasterAppProfileDescription == "This is the Portmaster UI Windows."

PortmasterNotifierProfileID == "_portmaster-notifier"
PortmasterNotifierProfileName == "Portmaster Notifier"
PortmasterNotifierProfileDescription == "This is the Portmaster UI Tray Notifier."

----------------------------------------------------------------------------
(* Collaborators of the profile package *)

SourceLocal == "local"
SourceSpecial == "special"

\* Option keys; opaque to this subsystem.
CfgOptionDefaultActionKey == "filter/defaultAction"
CfgOptionEndpointsKey == "filter/endpoints"
CfgOptionServiceEndpointsKey == "filter/serviceEndpoints"
CfgOptionFilterListsKey == "filter/lists"

\* A nil *Profile.
Nil == [nil |-> TRUE]

\* A nil (or empty) settings map.
NilConfig == [k \in {} |-> <<>>]

\* New allocates a record from a source scope, an ID, a linked path and an
\* initial settings bundle; it is stamped with the current time and every
\* other field keeps its zero value.
New(source, id, linkedPath, customConfig, clock) ==
    [ID          |-> id,
     Source      |-> source,
     Name        |-> "",
     Description |-> "",
     LinkedPath  |-> linkedPath,
     Internal    |-> FALSE,
     Config      |-> customConfig,
     Created     |-> clock,
     LastEdited  |-> 0]

----------------------------------------------------------------------------
(* time.Parse and Time.Unix, for layouts made of day, month, year and      *)
(* literal elements.  A string is a sequence of one-character strings.     *)

Digits == <<"0", "1", "2", "3", "4", "5", "6", "7", "8", "9">>

isDigit(c) == \E i \in 1..10 : Digits[i] = c

digitVal(c) == (CHOOSE i \in 1..10 : Digits[i] = c) - 1

ParseError == [err |-> TRUE, num |-> 0, rest |-> <<>>]

\* getnum: one or two decimal digits.
getnum(s) ==
    IF Len(s) = 0 \/ ~isDigit(s[1])
    THEN ParseError
    ELSE IF Len(s) = 1 \/ ~isDigit(s[2])
         THEN [err |-> FALSE, num |-> digitVal(s[1]), rest |-> Tail(s)]
         ELSE [err |-> FALSE, num |-> digitVal(s[1]) * 10 + digitVal(s[2]),
               rest |-> SubSeq(s, 3, Len(s))]

\* stdLongYear: exactly four decimal digits.
getyear(s) ==
    IF Len(s) < 4 \/ \E i \in 1..4 : ~isDigit(s[i])
    THEN ParseError
    ELSE [err |-> FALSE,
          num |-> digitVal(s[1]) * 1000 + digitVal(s[2]) * 100
                  + digitVal(s[3]) * 10 + digitVal(s[4]),
          rest |-> SubSeq(s, 5, Len(s))]

isLeap(year) == year % 4 = 0 /\ (year % 100 # 0 \/ year % 400 = 0)

daysIn(month, year) ==
    IF month = 2 THEN (IF isLeap(year) THEN 29 ELSE 28)
    ELSE IF month \in {4, 6, 9, 11} THEN 30 ELSE 31

\* Days from 1 Jan 1970 to the given civil date (proleptic Gregorian).
daysSinceEpoch(year, month, day) ==
    LET y   == IF month <= 2 THEN year - 1 ELSE year
        era == y \div 400
        yoe == y - era * 400
        mp  == IF month > 2 THEN month - 3 ELSE month + 9
        doy == (153 * mp + 2) \div 5 + day - 1
        doe == yoe * 365 + yoe \div 4 - yoe \div 100 + doy
    IN  era * 146097 + doe - 719468

RECURSIVE parseElems(_, _, _)
\* Consume the layout elements one by one; acc holds day, month and year.
parseElems(layout, value, acc) ==
    IF acc.err THEN acc
    ELSE IF Len(layout) = 0
    THEN [acc EXCEPT !.err = Len(value) # 0]                \* extra text
    ELSE LET e == Head(layout)
         IN  IF e = "2"
             THEN LET n == getnum(value)
                  IN  parseElems(Tail(layout), n.rest,
                        [acc EXCEPT !.day = n.num,
                                    !.err = n.err \/ n.num < 1 \/ n.num > 31])
             ELSE IF e = "1"
             THEN LET n == getnum(value)
                  IN  parseElems(Tail(layout), n.rest,
                        [acc EXCEPT !.month = n.num,
                                    !.err = n.err \/ n.num < 1 \/ n.num > 12])
             ELSE IF e = "2006"
             THEN LET n == getyear(value)
                  IN  parseElems(Tail(layout), n.rest,
                        [acc EXCEPT !.year = n.num, !.err = n.err])
             ELSE IF Len(value) > 0 /\ Head(value) = e              \* literal
                  THEN parseElems(Tail(layout), Tail(value), acc)
                  ELSE [acc EXCEPT !.err = TRUE]

\* time.Parse(layout, value) followed by Unix(): [err, unix].
timeParse(layout, value) ==
    LET r == parseElems(layout, value,
                        [err |-> FALSE, day |-> 1, month |-> 1, year |-> 0])
    IN  IF r.err \/ r.day > daysIn(r.month, r.year)
        THEN [err |-> TRUE, unix |-> 0]
        ELSE [err |-> FALSE,
              unix |-> daysSinceEpoch(r.year, r.month, r.day) * 86400]

\* The layout "2.1.2006".
UpgradeDateLayout == <<"2", ".", "1", ".", "2006">>

\* The layout "1.2.2006" (month first).
MonthFirstLayout == <<"1", ".", "2", ".", "2006">>

\* "20.11.2021"
SystemResolverUpgradeDate == <<"2", "0", ".", "1", "1", ".", "2", "0", "2", "1">>

\* "8.9.2021"
PortmasterAppUpgradeDate == <<"8", ".", "9", ".", "2", "0", "2", "1">>

----------------------------------------------------------------------------
(* The synchronizer *)

\* The switch on profile.ID: is the profile applicable to special handling?
isSpecialProfileID(id) ==
    id \in {UnidentifiedProfileID, SystemProfileID, SystemResolverProfileID,
            PortmasterProfileID, PortmasterAppProfileID,
            PortmasterNotifierProfileID}

\* The switch on profile.ID: newProfileName.
newProfileName(id) ==
    CASE id = UnidentifiedProfileID       -> UnidentifiedProfileName
      [] id = SystemProfileID             -> SystemProfileName
      [] id = SystemResolverProfileID     -> SystemResolverProfileName
      [] id = PortmasterProfileID         -> PortmasterProfileName
      [] id = PortmasterAppProfileID      -> PortmasterAppProfileName
      [] id = PortmasterNotifierProfileID -> PortmasterNotifierProfileName
      [] OTHER                            -> ""

\* The switch on profile.ID: newDescription.
newDescription(id) ==
    CASE id = UnidentifiedProfileID       -> UnidentifiedProfileDescription
      [] id = SystemProfileID             -> SystemProfileDescription
      [] id = SystemResolverProfileID     -> SystemResolverProfileDescription
      [] id = PortmasterProfileID         -> PortmasterProfileDescription
      [] id = PortmasterAppProfileID      -> PortmasterAppProfileDescription
      [] id = PortmasterNotifierProfileID -> PortmasterNotifierProfileDescription
      [] OTHER                            -> ""

\* Variant: records the user has edited, or of another source, are skipped.
updateSpecialProfileMetadata_skipsIneligible(p, binaryPath) ==
    IF ~isSpecialProfileID(p.ID)
    THEN [profile |-> p, ok |-> FALSE, changed |-> FALSE]
    ELSE IF p.LastEdited > 0 \/ p.Source # SourceLocal
    THEN [profile |-> p, ok |-> TRUE, changed |-> FALSE]
    ELSE [profile |-> [p EXCEPT !.Name = newProfileName(p.ID),
                                !.Description = newDescription(p.ID),
                                !.LinkedPath = binaryPath],
          ok      |-> TRUE,
          changed |-> \/ p.Name # newProfileName(p.ID)
                      \/ p.Description # newDescription(p.ID)
                      \/ p.LinkedPath # binaryPath]

\* Variant: the description is only filled in when the name had to be.
updateSpecialProfileMetadata_descriptionWithName(p, binaryPath) ==
    IF ~isSpecialProfileID(p.ID)
    THEN [profile |-> p, ok |-> FALSE, changed |-> FALSE]
    ELSE [profile |-> [p EXCEPT !.Name = newProfileName(p.ID),
                                !.Description =
                                    IF p.Name # newProfileName(p.ID)
                                    THEN "" ELSE newDescription(p.ID),
                                !.LinkedPath = binaryPath],
          ok      |-> TRUE,
          changed |-> \/ p.Name # newProfileName(p.ID)
                      \/ p.Description # newDescription(p.ID)
                      \/ p.LinkedPath # binaryPath]

\* Variant: changed is reported whenever the profile is recognized.
updateSpecialProfileMetadata_alwaysChanged(p, binaryPath) ==
    IF ~isSpecialProfileID(p.ID)
    THEN [profile |-> p, ok |-> FALSE, changed |-> FALSE]
    ELSE [profile |-> [p EXCEPT !.Name = newProfileName(p.ID),
                                !.Description = newDescription(p.ID),
                                !.LinkedPath = binaryPath],
          ok      |-> TRUE,
          changed |-> TRUE]

\* Variant: a changed record is also marked as edited.
updateSpecialProfileMetadata_marksEdited(p, binaryPath) ==
    LET changed == \/ p.Name # newProfileName(p.ID)
                   \/ p.Description # newDescription(p.ID)
                   \/ p.LinkedPath # binaryPath
    IN  IF ~isSpecialProfileID(p.ID)
        THEN [profile |-> p, ok |-> FALSE, changed |-> FALSE]
        ELSE [profile |-> [p EXCEPT !.Name = newProfileName(p.ID),
                                    !.Description = newDescription(p.ID),
                                    !.LinkedPath = binaryPath,
                                    !.LastEdited =
                                        IF changed THEN 1 ELSE p.LastEdited],
              ok      |-> TRUE,
              changed |-> changed]

\* Variant: the default case does not return; the linked path is updated.
updateSpecialProfileMetadata_defaultFallsThrough(p, binaryPath) ==
    IF ~isSpecialProfileID(p.ID)
    THEN [profile |-> [p EXCEPT !.LinkedPath = binaryPath],
          ok |-> FALSE, changed |-> FALSE]
    ELSE [profile |-> [p EXCEPT !.Name = newProfileName(p.ID),
                                !.Description = newDescription(p.ID),
                                !.LinkedPath = binaryPath],
          ok      |-> TRUE,
          changed |-> \/ p.Name # newProfileName(p.ID)
                      \/ p.Description # newDescription(p.ID)
                      \/ p.LinkedPath # binaryPath]

\* Variant: a new linked path is stored without setting changed.
updateSpecialProfileMetadata_pathNotFlagged(p, binaryPath) ==
    IF ~isSpecialProfileID(p.ID)
    THEN [profile |-> p, ok |-> FALSE, changed |-> FALSE]
    ELSE [profile |-> [p EXCEPT !.Name = newProfileName(p.ID),
                                !.Description = newDescription(p.ID),
                                !.LinkedPath = binaryPath],
          ok      |-> TRUE,
          changed |-> \/ p.Name # newProfileName(p.ID)
                      \/ p.Description # newDescription(p.ID)]

\* updateSpecialProfileMetadata(profile, binaryPath) (ok, changed bool);
\* the profile is updated in place, so it is returned with the results.
updateSpecialProfileMetadata(p, binaryPath) ==
    IF ~isSpecialProfileID(p.ID)
    THEN [profile |-> p, ok |-> FALSE, changed |-> FALSE]
    ELSE LET nameDiffers == p.Name # newProfileName(p.ID)
             p1 == IF nameDiffers
                   THEN [p EXCEPT !.Name = newProfileName(p.ID)] ELSE p
             descDiffers == p1.Description # newDescription(p.ID)
             p2 == IF descDiffers
                   THEN [p1 EXCEPT !.Description = newDescription(p.ID)]
                   ELSE p1
             pathDiffers == p2.LinkedPath # binaryPath
             p3 == IF pathDiffers
                   THEN [p2 EXCEPT !.LinkedPath = binaryPath] ELSE p2
         IN  [profile |-> p3,
              ok      |-> TRUE,
              changed |-> nameDiffers \/ descDiffers \/ pathDiffers]

----------------------------------------------------------------------------
(* The factory *)

SystemResolverConfig ==
    (CfgOptionDefaultActionKey :> "permit")
    @@ (CfgOptionServiceEndpointsKey :>
            <<"+ Localhost", "+ LAN UDP/5353", "+ LAN UDP/5355", "+ LAN UDP/1900">>)
    @@ (CfgOptionFilterListsKey :> <<>>)

PortmasterAppConfig ==
    (CfgOptionDefaultActionKey :> "block")
    @@ (CfgOptionEndpointsKey :> <<"+ Localhost", "+ .safing.io">>)

PortmasterNotifierConfig ==
    (CfgOptionDefaultActionKey :> "block")
    @@ (CfgOptionEndpointsKey :> <<"+ Localhost">>)

\* Variant: the notifier is not marked internal.
getSpecialProfile_notifierNotInternal(profileID, linkedPath, clock) ==
    CASE profileID \in {UnidentifiedProfileID, SystemProfileID} ->
            New(SourceLocal, profileID, linkedPath, NilConfig, clock)
      [] profileID = SystemResolverProfileID ->
            New(SourceLocal, profileID, linkedPath, SystemResolverConfig, clock)
      [] profileID = PortmasterProfileID ->
            [New(SourceLocal, profileID, linkedPath, NilConfig, clock)
                EXCEPT !.Internal = TRUE]
      [] profileID = PortmasterAppProfileID ->
            [New(SourceLocal, profileID, linkedPath, PortmasterAppConfig, clock)
                EXCEPT !.Internal = TRUE]
      [] profileID = PortmasterNotifierProfileID ->
            New(SourceLocal, profileID, linkedPath, PortmasterNotifierConfig, clock)
      [] OTHER -> Nil

\* getSpecialProfile(profileID, linkedPath) *Profile; clock is the time at
\* which New is called.
getSpecialProfile(profileID, linkedPath, clock) ==
    CASE profileID = UnidentifiedProfileID ->
            New(SourceLocal, UnidentifiedProfileID, linkedPath, NilConfig, clock)
      [] profileID = SystemProfileID ->
            New(SourceLocal, SystemProfileID, linkedPath, NilConfig, clock)
      [] profileID = SystemResolverProfileID ->
            New(SourceLocal, SystemResolverProfileID, linkedPath,
                SystemResolverConfig, clock)
      [] profileID = PortmasterProfileID ->
            [New(SourceLocal, PortmasterProfileID, linkedPath, NilConfig, clock)
                EXCEPT !.Internal = TRUE]
      [] profileID = PortmasterAppProfileID ->
            [New(SourceLocal, PortmasterAppProfileID, linkedPath,
                 PortmasterAppConfig, clock)
                EXCEPT !.Internal = TRUE]
      [] profileID = PortmasterNotifierProfileID ->
            [New(SourceLocal, PortmasterNotifierProfileID, linkedPath,
                 PortmasterNotifierConfig, clock)
                EXCEPT !.Internal = TRUE]
      [] OTHER -> Nil

----------------------------------------------------------------------------
(* The upgrade gate *)

\* Variant: the upgrade date is read month first.
canBeUpgraded_monthFirst(p, upgradeDate) ==
    LET upgradeTime == timeParse(MonthFirstLayout, upgradeDate)
    IN  IF upgradeTime.err THEN FALSE ELSE p.Created < upgradeTime.unix

\* Variant: a record created exactly at the upgrade date is upgraded too.
canBeUpgraded_inclusive(p, upgradeDate) ==
    LET upgradeTime == timeParse(UpgradeDateLayout, upgradeDate)
    IN  IF upgradeTime.err THEN FALSE ELSE p.Created <= upgradeTime.unix

\* canBeUpgraded(profile, upgradeDate) bool
canBeUpgraded(p, upgradeDate) ==
    LET upgradeTime == timeParse(UpgradeDateLayout, upgradeDate)
    IN  IF upgradeTime.err
        THEN FALSE
        ELSE IF p.Created < upgradeTime.unix THEN TRUE ELSE FALSE

\* Variant: the LastEdited check is missing.
specialProfileNeedsReset_ignoresEdits(p) ==
    IF p = Nil THEN FALSE
    ELSE IF p.Source # SourceLocal THEN FALSE
    ELSE CASE p.ID = SystemResolverProfileID ->
                canBeUpgraded(p, SystemResolverUpgradeDate)
           [] p.ID = PortmasterAppProfileID ->
                canBeUpgraded(p, PortmasterAppUpgradeDate)
           [] OTHER -> FALSE

\* specialProfileNeedsReset(profile) bool
specialProfileNeedsReset(p) ==
    IF p = Nil THEN FALSE
    ELSE IF p.Source # SourceLocal THEN FALSE
    ELSE IF p.LastEdited > 0 THEN FALSE
    ELSE CASE p.ID = SystemResolverProfileID ->
                canBeUpgraded(p, SystemResolverUpgradeDate)
           [] p.ID = PortmasterAppProfileID ->
                canBeUpgraded(p, PortmasterAppUpgradeDate)
           [] OTHER -> FALSE

----------------------------------------------------------------------------
(* The state machine: a stored record, the clock, and the operations the   *)
(* profile-loading collaborator applies to the record.                     *)

\* The upgrade dates as Unix seconds: 20 Nov 2021 and 8 Sep 2021, 00:00 UTC.
SystemResolverCutoffUnix == 1637366400
PortmasterAppCutoffUnix == 1631059200

\* The instants at which things happen: around each cutoff.
Instants ==
    {c + d : c \in {SystemResolverCutoffUnix, PortmasterAppCutoffUnix},
             d \in (0 - Skew)..Skew}

\* The ID of an ordinary (not special) profile.
OrdinaryProfileID == "7d1c2e0a-ordinary"

ProfileIDs ==
    {UnidentifiedProfileID, SystemProfileID, SystemResolverProfileID,
     PortmasterProfileID, PortmasterAppProfileID, PortmasterNotifierProfileID,
     OrdinaryProfileID}

Sources == {SourceLocal, SourceSpecial}

Paths == {"/usr/lib/systemd/systemd-resolved", "/opt/safing/portmaster/core"}

\* A settings bundle the user has customized.
UserConfig == (CfgOptionDefaultActionKey :> "prompt")

\* The records that may be found in the database at start: made by the
\* factory of this or an earlier version (Internal as the factory sets it, an
\* empty settings bundle unless the user has edited it), of any source, with
\* current or outdated metadata.
StoredProfiles ==
    UNION {
        { [ID          |-> id,
           Source      |-> f.source,
           Name        |-> f.name,
           Description |-> f.description,
           LinkedPath  |-> f.linkedPath,
           Internal    |-> IF isSpecialProfileID(id)
                           THEN getSpecialProfile(id, f.linkedPath, f.created).Internal
                           ELSE FALSE,
           Config      |-> IF f.lastEdited > 0 THEN UserConfig ELSE NilConfig,
           Created     |-> f.created,
           LastEdited  |-> f.lastEdited] :
          f \in [source      : Sources,
                 name        : {newProfileName(id), "Custom Name"},
                 description : {newDescription(id), "An older description."},
                 linkedPath  : Paths,
                 created     : Instants,
                 lastEdited  : {0, 1}] } : id \in ProfileIDs }

NoArg == [id |-> "", path |-> ""]

NoResult == [ok |-> FALSE, changed |-> FALSE, reset |-> FALSE]

Init ==
    /\ now \in Instants
    /\ profile \in {p \in StoredProfiles : p.Created <= now} \cup {Nil}
    /\ pre = profile
    /\ op = "init"
    /\ arg = NoArg
    /\ ret = NoResult
    /\ again = FALSE
    /\ migrated = FALSE
    /\ resetAgain = FALSE

\* reconcile: updateSpecialProfileMetadata on the record in hand.
Reconcile(path) ==
    /\ profile # Nil
    /\ LET r == updateSpecialProfileMetadata(profile, path)
       IN  /\ profile' = r.profile
           /\ ret' = [ok |-> r.ok, changed |-> r.changed, reset |-> FALSE]
    /\ pre' = profile
    /\ op' = "reconcile"
    /\ arg' = [id |-> "", path |-> path]
    /\ again' = (op = "reconcile" /\ arg.path = path)
    /\ UNCHANGED <<now, migrated, resetAgain>>

\* needsReset: specialProfileNeedsReset on the record in hand (or on nil).
NeedsReset ==
    /\ ret' = [ok |-> FALSE, changed |-> FALSE,
               reset |-> specialProfileNeedsReset(profile)]
    /\ pre' = profile
    /\ op' = "needsReset"
    /\ arg' = NoArg
    /\ again' = FALSE
    /\ UNCHANGED <<profile, now, migrated, resetAgain>>

\* createSpecialProfile: getSpecialProfile on first encounter of an ID.
Create(id, path) ==
    /\ profile = Nil
    /\ profile' = getSpecialProfile(id, path, now)
    /\ pre' = profile
    /\ op' = "create"
    /\ arg' = [id |-> id, path |-> path]
    /\ ret' = [NoResult EXCEPT !.ok = (profile' # Nil)]
    /\ again' = FALSE
    /\ UNCHANGED <<now, migrated, resetAgain>>

\* The cutoff registered for an ID, as Unix seconds (0: none).
CutoffUnix(id) ==
    CASE id = SystemResolverProfileID -> SystemResolverCutoffUnix
      [] id = PortmasterAppProfileID  -> PortmasterAppCutoffUnix
      [] OTHER                        -> 0

\* A load of the stored record: reset it if the upgrade gate says so,
\* otherwise synchronize it.
Load(path) ==
    /\ profile # Nil
    /\ IF specialProfileNeedsReset(profile)
       THEN /\ profile' = getSpecialProfile(profile.ID, path, now)
            /\ ret' = [ok |-> TRUE, changed |-> TRUE, reset |-> TRUE]
            /\ migrated' = (migrated \/ now >= CutoffUnix(profile.ID))
            /\ resetAgain' = (resetAgain \/ migrated)
       ELSE /\ LET r == updateSpecialProfileMetadata(profile, path)
               IN  /\ profile' = r.profile
                   /\ ret' = [ok |-> r.ok, changed |-> r.changed,
                              reset |-> FALSE]
            /\ UNCHANGED <<migrated, resetAgain>>
    /\ pre' = profile
    /\ op' = "load"
    /\ arg' = [id |-> profile.ID, path |-> path]
    /\ again' = FALSE
    /\ UNCHANGED now

\* The user edits the settings of the record.
UserEdit ==
    /\ profile # Nil
    /\ profile' = [profile EXCEPT !.Config = UserConfig, !.LastEdited = now]
    /\ pre' = profile
    /\ op' = "edit"
    /\ arg' = NoArg
    /\ ret' = NoResult
    /\ again' = FALSE
    /\ UNCHANGED <<now, migrated, resetAgain>>

\* Time passes.
Tick ==
    /\ \E t \in Instants : t > now /\ now' = t
    /\ UNCHANGED <<profile, pre, op, arg, ret, again, migrated, resetAgain>>

Next ==
    \/ \E path \in Paths : Reconcile(path)
    \/ NeedsReset
    \/ \E id \in ProfileIDs, path \in Paths : Create(id, path)
    \/ \E path \in Paths : Load(path)
    \/ UserEdit
    \/ Tick

Spec == Init /\ [][Next]_vars

TypeOK ==
    /\ now \in Instants
    /\ op \in {"init", "reconcile", "needsReset", "create", "load", "edit"}
    /\ ret \in [ok : BOOLEAN, changed : BOOLEAN, reset : BOOLEAN]

----------------------------------------------------------------------------
(* Properties *)

\* The Catalog: the name and description defined for each well-known ID.
Catalog ==
    (UnidentifiedProfileID :>
        [Name |-> UnidentifiedProfileName,
         Description |-> UnidentifiedProfileDescription])
    @@ (SystemProfileID :>
        [Name |-> SystemProfileName,
         Description |-> SystemProfileDescription])
    @@ (SystemResolverProfileID :>
        [Name |-> SystemResolverProfileName,
         Description |-> SystemResolverProfileDescription])
    @@ (PortmasterProfileID :>
        [Name |-> PortmasterProfileName,
         Description |-> PortmasterProfileDescription])
    @@ (PortmasterAppProfileID :>
        [Name |-> PortmasterAppProfileName,
         Description |-> PortmasterAppProfileDescription])
    @@ (PortmasterNotifierProfileID :>
        [Name |-> PortmasterNotifierProfileName,
         Description |-> PortmasterNotifierProfileDescription])

WellKnownIDs == DOMAIN Catalog

\* C1: needsReset returns false for every profile that is absent, has
\* Source != Local, or has LastEdited > 0, whatever its ID and its creation
\* date are.
C1_NoResetWhenIneligible ==
    (op = "needsReset"
        /\ (pre = Nil \/ pre.Source # SourceLocal \/ pre.LastEdited > 0))
    => ret.reset = FALSE

\* needsReset has said no to an edited local system-resolver record that was
\* created before every cutoff.
C1_Witness ==
    /\ op = "needsReset"
    /\ pre # Nil
    /\ pre.ID = SystemResolverProfileID
    /\ pre.Source = SourceLocal
    /\ pre.LastEdited > 0
    /\ pre.Created < PortmasterAppCutoffUnix
    /\ ret.reset = FALSE

\* C2: for a local, never edited profile needsReset returns true exactly when
\* the ID is the system resolver and Created is strictly before 20 Nov 2021,
\* or the ID is the user-interface application and Created is strictly before
\* 8 Sep 2021.
C2_ResetExactlyBeforeCutoff ==
    (op = "needsReset" /\ pre # Nil
        /\ pre.Source = SourceLocal /\ pre.LastEdited = 0)
    => (ret.reset <=>
            \/ (pre.ID = SystemResolverProfileID
                    /\ pre.Created < SystemResolverCutoffUnix)
            \/ (pre.ID = PortmasterAppProfileID
                    /\ pre.Created < PortmasterAppCutoffUnix))

\* needsReset has said yes to a system-resolver record created in the last
\* second before its cutoff.
C2_Witness ==
    /\ op = "needsReset"
    /\ pre # Nil
    /\ pre.ID = SystemResolverProfileID
    /\ pre.Source = SourceLocal
    /\ pre.LastEdited = 0
    /\ pre.Created = SystemResolverCutoffUnix - 1
    /\ ret.reset = TRUE

\* C3 as stated: reconcile leaves every profile with LastEdited > 0 or with
\* Source != Local untouched.
C3_Original ==
    (op = "reconcile" /\ (pre.LastEdited > 0 \/ pre.Source # SourceLocal))
    => profile = pre

\* C3 as amended: reconcile is not gated on eligibility.  A profile with
\* LastEdited > 0 or Source != Local is left untouched when its ID is not
\* well-known; otherwise its Name, Description and LinkedPath are brought to
\* the Catalog values and the supplied path, as for an eligible record, and
\* nothing else is touched.
C3_IneligibleStillSynchronized ==
    (op = "reconcile" /\ (pre.LastEdited > 0 \/ pre.Source # SourceLocal))
    => IF pre.ID \in WellKnownIDs
       THEN /\ profile = [pre EXCEPT !.Name = Catalog[pre.ID].Name,
                                     !.Description = Catalog[pre.ID].Description,
                                     !.LinkedPath = arg.path]
            /\ ret.ok
            /\ ret.changed = (profile # pre)
       ELSE profile = pre /\ ~ret.ok /\ ~ret.changed

\* reconcile has changed a record that the user had edited.
C3_Witness ==
    /\ op = "reconcile"
    /\ pre.LastEdited > 0
    /\ pre.Source = SourceLocal
    /\ profile # pre
    /\ ret.changed

FreshFromFactory(p) ==
    /\ p # Nil
    /\ p = getSpecialProfile(p.ID, p.LinkedPath, p.Created)

C5_FactoryRecord ==
    op = "create"
    => /\ (profile # Nil) <=> (arg.id \in WellKnownIDs)
       /\ profile # Nil =>
            /\ profile.ID = arg.id
            /\ profile.Source = SourceLocal
            /\ profile.LinkedPath = arg.path
            /\ profile.Internal <=>
                    arg.id \in {PortmasterProfileID, PortmasterAppProfileID,
                                PortmasterNotifierProfileID}

\* The factory has returned an internal record for the notifier.
C5_Witness ==
    /\ op = "create"
    /\ arg.id = PortmasterNotifierProfileID
    /\ profile # Nil
    /\ profile.Internal

\* C6: a reconcile made directly after a reconcile with the same linked path
\* reports changed = false and leaves the profile as the first call left it.
C6_ReconcileIdempotent ==
    (op = "reconcile" /\ again) => (ret.changed = FALSE /\ profile = pre)

\* A second reconcile of a recognized record has run.
C6_Witness ==
    /\ op = "reconcile"
    /\ again
    /\ ret.ok
    /\ profile.LinkedPath = arg.path

\* C7: reconcile changes at most Name, Description and LinkedPath; Settings,
\* Internal, ID, Source, Created and LastEdited keep their values.
C7_ReconcileFrame ==
    op = "reconcile"
    => /\ profile.Config = pre.Config
       /\ profile.Internal = pre.Internal
       /\ profile.ID = pre.ID
       /\ profile.Source = pre.Source
       /\ profile.Created = pre.Created
       /\ profile.LastEdited = pre.LastEdited

\* reconcile has changed a never edited internal record with settings.
C7_Witness ==
    /\ op = "reconcile"
    /\ ret.changed
    /\ profile # pre
    /\ pre.Internal
    /\ pre.Config # NilConfig
    /\ pre.LastEdited = 0

\* C8: reconcile on a profile whose ID is not well-known returns
\* (false, false) and leaves every field unchanged.
C8_UnrecognizedUntouched ==
    (op = "reconcile" /\ pre.ID \notin WellKnownIDs)
    => (ret.ok = FALSE /\ ret.changed = FALSE /\ profile = pre)

\* reconcile has been called on an ordinary profile with another linked path.
C8_Witness ==
    /\ op = "reconcile"
    /\ pre.ID = OrdinaryProfileID
    /\ pre.LinkedPath # arg.path
    /\ ret.ok = FALSE

\* C9: for a well-known ID reconcile returns recognized = true, leaves Name
\* and Description at the Catalog values and LinkedPath at the supplied path,
\* and reports changed exactly when one of the three differed before.
C9_ReconcileResult ==
    (op = "reconcile" /\ pre.ID \in WellKnownIDs)
    => /\ ret.ok = TRUE
       /\ profile.Name = Catalog[pre.ID].Name
       /\ profile.Description = Catalog[pre.ID].Description
       /\ profile.LinkedPath = arg.path
       /\ ret.changed <=>
            \/ pre.Name # Catalog[pre.ID].Name
            \/ pre.Description # Catalog[pre.ID].Description
            \/ pre.LinkedPath # arg.path

\* reconcile has been called with a new linked path on a record whose name
\* and description were current.
C9_Witness ==
    /\ op = "reconcile"
    /\ pre.ID \in WellKnownIDs
    /\ pre.Name = Catalog[pre.ID].Name
    /\ pre.Description = Catalog[pre.ID].Description
    /\ pre.LinkedPath # arg.path
    /\ ret.changed

\* C10: once a load has re-created the record with a Created timestamp at or
\* after the cutoff of its ID, needsReset is false for it from then on, and
\* no later load resets it again.
C10_ResetAtMostOnce ==
    /\ migrated => ~specialProfileNeedsReset(profile)
    /\ ~resetAgain

\* A never edited record that was reset after its cutoff has been loaded
\* again and was synchronized, not reset.
C10_Witness ==
    /\ migrated
    /\ op = "load"
    /\ ret.reset = FALSE
    /\ profile.LastEdited = 0
    /\ profile.Created = CutoffUnix(profile.ID)

====
